---- MODULE Spec2Model ----
(***************************************************************************)
(* Rideau Canal monitoring: the sensor simulator (sensor-simulator.py) as  *)
(* asyncio tasks under gather / asyncio.run, the blob reader               *)
(* process_json_files and the summary statistics of create_visualizations  *)
(* (simple-visualizer.py).                                                 *)
(***************************************************************************)
EXTENDS Integers, Sequences, FiniteSets, TLC

VARIABLES
    \* ---- sensor-simulator.py ----
    pc,             \* per station: the await simulate_sensor is suspended at
    result,         \* per station: how the task ended
    must_cancel,    \* per station: a cancel() was requested and not yet thrown in
    exc,            \* per station: exception pending while the finally block runs
    session,        \* per station: state of the transport session
    calls,          \* per station: transport calls made, in order
    acks,           \* per station: send_message calls that completed
    publish_failed, \* per station: a send_message raised
    cancelled_at,   \* per station: the await at which CancelledError was first thrown
    main_state,     \* main(): awaiting gather, or how it ended
    interrupted,    \* KeyboardInterrupt was delivered to asyncio.run
    cleanup,        \* asyncio.run has cancelled the remaining tasks
    \* ---- simple-visualizer.py: process_json_files ----
    rd_pc,          \* "idle", "loop", "done"
    listed,         \* the json_files argument
    max_files,      \* the max_files argument (None or a number)
    json_files,     \* json_files after the truncation of line 42
    idx,            \* position of the for loop of line 47
    all_records,    \* the list all_records
    warnings,       \* logging.warning calls (line 61)
    errors,         \* logging.error calls (line 63)
    downloads,      \* blobs handed to download_blob, in order
    seen_lines,     \* non-blank lines of the blobs read so far
    seen_bad,       \* of those, the lines that are not JSON
    df,             \* the value returned
    \* ---- simple-visualizer.py: create_visualizations ----
    ag_pc,          \* "idle", "ready", "done"
    rows1,          \* a DataFrame's rows
    rows2,          \* the same rows presented in another order
    summary1,       \* summary of rows1
    summary2        \* summary of rows2

simVars == <<pc, result, must_cancel, exc, session, calls, acks, publish_failed,
             cancelled_at, main_state, interrupted, cleanup>>
rdVars == <<rd_pc, listed, max_files, json_files, idx, all_records, warnings,
            errors, downloads, seen_lines, seen_bad, df>>
agVars == <<ag_pc, rows1, rows2, summary1, summary2>>
vars == <<simVars, rdVars, agVars>>

None == "None"

\* Number of positions of seq holding e.
Count(seq, e) == Cardinality({i \in DOMAIN seq : seq[i] = e})

(***************************************************************************)
(* sensor-simulator.py                                                     *)
(***************************************************************************)

\* The keys of DEVICE_CONNECTION_STRINGS.
Stations == {"Dow's Lake", "Fifth Avenue", "NAC"}

\* Ticks a station may start (model bound on the while True loop).
MaxTicks == 2

SimInit ==
    /\ pc = [s \in Stations |-> "created"]
    /\ result = [s \in Stations |-> "pending"]
    /\ must_cancel = [s \in Stations |-> FALSE]
    /\ exc = [s \in Stations |-> None]
    /\ session = [s \in Stations |-> "none"]
    /\ calls = [s \in Stations |-> <<>>]
    /\ acks = [s \in Stations |-> 0]
    /\ publish_failed = [s \in Stations |-> FALSE]
    /\ cancelled_at = [s \in Stations |-> None]
    /\ main_state = "gather"
    /\ interrupted = FALSE
    /\ cleanup = FALSE

\* The finally block of simulate_sensor is entered with exception e pending:
\* device_client.disconnect() is called and awaited.
EnterFinally(s, e) ==
    /\ calls' = [calls EXCEPT ![s] = Append(@, "disconnect")]
    /\ pc' = [pc EXCEPT ![s] = "disconnect"]
    /\ exc' = [exc EXCEPT ![s] = e]

\* The task's first step: create the client and call connect().
start(s) ==
    /\ pc[s] = "created"
    /\ ~must_cancel[s]
    /\ pc' = [pc EXCEPT ![s] = "connect"]
    /\ calls' = [calls EXCEPT ![s] = Append(@, "connect")]
    /\ UNCHANGED <<result, must_cancel, exc, session, acks, publish_failed,
                   cancelled_at, main_state, interrupted, cleanup>>
    /\ UNCHANGED <<rdVars, agVars>>

\* connect() returns: print Connected, build the first message, call send_message.
connect_returns(s) ==
    /\ pc[s] = "connect"
    /\ ~must_cancel[s]
    /\ session' = [session EXCEPT ![s] = "open"]
    /\ calls' = [calls EXCEPT ![s] = @ \o <<"connected", "send_message">>]
    /\ pc' = [pc EXCEPT ![s] = "send_message"]
    /\ UNCHANGED <<result, must_cancel, exc, acks, publish_failed,
                   cancelled_at, main_state, interrupted, cleanup>>
    /\ UNCHANGED <<rdVars, agVars>>

\* connect() raises: line 28 is outside the try, the exception leaves the task.
connect_raises(s) ==
    /\ pc[s] = "connect"
    /\ ~must_cancel[s]
    /\ pc' = [pc EXCEPT ![s] = "done"]
    /\ result' = [result EXCEPT ![s] = "raised"]
    /\ UNCHANGED <<must_cancel, exc, session, calls, acks, publish_failed,
                   cancelled_at, main_state, interrupted, cleanup>>
    /\ UNCHANGED <<rdVars, agVars>>

\* send_message() returns: print Sent, then await asyncio.sleep(10).
send_message_returns(s) ==
    /\ pc[s] = "send_message"
    /\ ~must_cancel[s]
    /\ acks' = [acks EXCEPT ![s] = @ + 1]
    /\ pc' = [pc EXCEPT ![s] = "sleep"]
    /\ UNCHANGED <<result, must_cancel, exc, session, calls, publish_failed,
                   cancelled_at, main_state, interrupted, cleanup>>
    /\ UNCHANGED <<rdVars, agVars>>

\* Mutant: the except clause sits inside the loop after a disconnect, so the
\* loop goes on to its delay with the session released.
send_message_raises_in_loop(s) ==
    /\ pc[s] = "send_message"
    /\ ~must_cancel[s]
    /\ publish_failed' = [publish_failed EXCEPT ![s] = TRUE]
    /\ calls' = [calls EXCEPT ![s] = Append(@, "disconnect")]
    /\ session' = [session EXCEPT ![s] = "closed"]
    /\ pc' = [pc EXCEPT ![s] = "sleep"]
    /\ UNCHANGED <<result, must_cancel, exc, acks,
                   cancelled_at, main_state, interrupted, cleanup>>
    /\ UNCHANGED <<rdVars, agVars>>

\* Mutant: no finally block, the except clause ends the task.
send_message_raises_no_finally(s) ==
    /\ pc[s] = "send_message"
    /\ ~must_cancel[s]
    /\ publish_failed' = [publish_failed EXCEPT ![s] = TRUE]
    /\ pc' = [pc EXCEPT ![s] = "done"]
    /\ result' = [result EXCEPT ![s] = "returned"]
    /\ UNCHANGED <<must_cancel, exc, session, calls, acks,
                   cancelled_at, main_state, interrupted, cleanup>>
    /\ UNCHANGED <<rdVars, agVars>>

\* send_message() raises: caught by except Exception outside the while loop
\* (print Error), then the finally block.
send_message_raises(s) ==
    /\ pc[s] = "send_message"
    /\ ~must_cancel[s]
    /\ publish_failed' = [publish_failed EXCEPT ![s] = TRUE]
    /\ EnterFinally(s, None)
    /\ UNCHANGED <<result, must_cancel, session, acks,
                   cancelled_at, main_state, interrupted, cleanup>>
    /\ UNCHANGED <<rdVars, agVars>>

\* asyncio.sleep(10) returns: next iteration up to the next send_message.
sleep_returns(s) ==
    /\ pc[s] = "sleep"
    /\ ~must_cancel[s]
    /\ Count(calls[s], "send_message") < MaxTicks
    /\ calls' = [calls EXCEPT ![s] = Append(@, "send_message")]
    /\ pc' = [pc EXCEPT ![s] = "send_message"]
    /\ UNCHANGED <<result, must_cancel, exc, session, acks, publish_failed,
                   cancelled_at, main_state, interrupted, cleanup>>
    /\ UNCHANGED <<rdVars, agVars>>

\* disconnect() returns: print Disconnected; a pending CancelledError is
\* re-raised, otherwise the coroutine returns.
disconnect_returns(s) ==
    /\ pc[s] = "disconnect"
    /\ ~must_cancel[s]
    /\ session' = [session EXCEPT ![s] = "closed"]
    /\ pc' = [pc EXCEPT ![s] = "done"]
    /\ result' = [result EXCEPT ![s] =
                    IF exc[s] = "CancelledError" THEN "cancelled" ELSE "returned"]
    /\ UNCHANGED <<must_cancel, exc, calls, acks, publish_failed,
                   cancelled_at, main_state, interrupted, cleanup>>
    /\ UNCHANGED <<rdVars, agVars>>

\* disconnect() raises inside the finally block: the exception leaves the task.
disconnect_raises(s) ==
    /\ pc[s] = "disconnect"
    /\ ~must_cancel[s]
    /\ pc' = [pc EXCEPT ![s] = "done"]
    /\ result' = [result EXCEPT ![s] = "raised"]
    /\ UNCHANGED <<must_cancel, exc, session, calls, acks, publish_failed,
                   cancelled_at, main_state, interrupted, cleanup>>
    /\ UNCHANGED <<rdVars, agVars>>

\* A requested cancellation is thrown into the task as CancelledError at the
\* await it is suspended at. CancelledError is not an Exception: line 63 does
\* not catch it. Outside the try (not started, or in connect) it ends the
\* task; inside the try it runs the finally block; inside the finally block it
\* abandons the disconnect in progress.
throw_cancelled(s) ==
    /\ must_cancel[s]
    /\ pc[s] # "done"
    /\ must_cancel' = [must_cancel EXCEPT ![s] = FALSE]
    /\ cancelled_at' = [cancelled_at EXCEPT ![s] = IF @ = None THEN pc[s] ELSE @]
    /\ \/ /\ pc[s] \in {"created", "connect"}
          /\ pc' = [pc EXCEPT ![s] = "done"]
          /\ result' = [result EXCEPT ![s] = "cancelled"]
          /\ UNCHANGED <<exc, session, calls>>
       \/ /\ pc[s] \in {"send_message", "sleep"}
          /\ EnterFinally(s, "CancelledError")
          /\ UNCHANGED <<result, session>>
       \/ /\ pc[s] = "disconnect"
          /\ pc' = [pc EXCEPT ![s] = "done"]
          /\ result' = [result EXCEPT ![s] = "cancelled"]
          /\ \E o \in {"open", "closed"} : session' = [session EXCEPT ![s] = o]
          /\ UNCHANGED <<exc, calls>>
    /\ UNCHANGED <<acks, publish_failed, main_state, interrupted, cleanup>>
    /\ UNCHANGED <<rdVars, agVars>>

\* Mutant: gather resumes main as soon as one task has returned.
gather_first_completed ==
    /\ main_state = "gather"
    /\ \/ /\ \E s \in Stations : result[s] = "raised"
          /\ main_state' = "raised"
       \/ /\ \E s \in Stations : result[s] = "cancelled"
          /\ main_state' = "cancelled"
       \/ /\ \E s \in Stations : result[s] = "returned"
          /\ main_state' = "returned"
    /\ UNCHANGED <<pc, result, must_cancel, exc, session, calls, acks,
                   publish_failed, cancelled_at, interrupted, cleanup>>
    /\ UNCHANGED <<rdVars, agVars>>

\* await asyncio.gather(*sensor_tasks) resumes main: with the exception of a
\* task that raised, with CancelledError when a task was cancelled, or with the
\* results once every task has returned. The other tasks are left running.
gather_done ==
    /\ main_state = "gather"
    /\ \/ /\ \E s \in Stations : result[s] = "raised"
          /\ main_state' = "raised"
       \/ /\ \E s \in Stations : result[s] = "cancelled"
          /\ main_state' = "cancelled"
       \/ /\ \A s \in Stations : result[s] = "returned"
          /\ main_state' = "returned"
    /\ UNCHANGED <<pc, result, must_cancel, exc, session, calls, acks,
                   publish_failed, cancelled_at, interrupted, cleanup>>
    /\ UNCHANGED <<rdVars, agVars>>

\* KeyboardInterrupt while asyncio.run(main()) runs: the main task is cancelled,
\* and the gather it awaits cancels every task that is not done.
keyboard_interrupt ==
    /\ main_state = "gather"
    /\ ~interrupted
    /\ interrupted' = TRUE
    /\ must_cancel' = [s \in Stations |-> pc[s] # "done"]
    /\ UNCHANGED <<pc, result, exc, session, calls, acks, publish_failed,
                   cancelled_at, main_state, cleanup>>
    /\ UNCHANGED <<rdVars, agVars>>

\* asyncio.run, once main() has ended: cancel every task still running and run
\* the loop until they are done.
run_cancel_all_tasks ==
    /\ main_state # "gather"
    /\ ~cleanup
    /\ cleanup' = TRUE
    /\ must_cancel' = [s \in Stations |-> must_cancel[s] \/ pc[s] # "done"]
    /\ UNCHANGED <<pc, result, exc, session, calls, acks, publish_failed,
                   cancelled_at, main_state, interrupted>>
    /\ UNCHANGED <<rdVars, agVars>>

simulate_sensor(s) ==
    \/ start(s)
    \/ connect_returns(s)
    \/ connect_raises(s)
    \/ send_message_returns(s)
    \/ send_message_raises(s)
    \/ sleep_returns(s)
    \/ disconnect_returns(s)
    \/ disconnect_raises(s)
    \/ throw_cancelled(s)

SimNext ==
    \/ \E s \in Stations : simulate_sensor(s)
    \/ gather_done
    \/ keyboard_interrupt
    \/ run_cancel_all_tasks

\* The states of the station state machine.
Emitting(s) == pc[s] \in {"send_message", "sleep"}
Disconnected(s) == pc[s] = "done" /\ session[s] = "closed"

(***************************************************************************)
(* simple-visualizer.py: process_json_files                                *)
(***************************************************************************)

\* Blobs a listing may hold, and bytes a blob may hold (model bounds).
MaxBlobs == 2
MaxLen == 4

\* The bytes of a blob. "A" stands for the text of a JSON object with every
\* field of the aggregate wire shape, "M" for the text of a JSON object
\* without windowEndTime and the metrics, "X" for text that is not JSON, "D"
\* for brackets nested deeper than the interpreter's recursion limit, "U" for
\* a byte that is not UTF-8, "SP" for a space and "NL" for a newline.
Bytes == {"A", "M", "X", "D", "U", "SP", "NL"}

Contents == UNION {[1..n -> Bytes] : n \in 0..MaxLen}

\* The fields every record is required to carry.
RequiredFields == {"location", "windowEndTime", "avgIceThickness"}

RecordA == [location |-> "NAC", windowEndTime |-> 1, avgIceThickness |-> 20]
RecordM == [location |-> "NAC"]

\* content_str.split('\n')
RECURSIVE Split(_)
Split(str) ==
    IF \A i \in DOMAIN str : str[i] # "NL"
    THEN <<str>>
    ELSE LET i == CHOOSE j \in DOMAIN str :
                      str[j] = "NL" /\ \A k \in 1..(j - 1) : str[k] # "NL"
         IN <<SubSeq(str, 1, i - 1)>> \o Split(SubSeq(str, i + 1, Len(str)))

\* line.strip()
RECURSIVE Strip(_)
Strip(line) ==
    IF line = <<>> THEN line
    ELSE IF Head(line) = "SP" THEN Strip(Tail(line))
    ELSE IF line[Len(line)] = "SP" THEN Strip(SubSeq(line, 1, Len(line) - 1))
    ELSE line

\* json.loads(line): the record, or the exception raised. Whitespace around
\* the value is accepted; anything else beside one JSON value is a
\* JSONDecodeError, and brackets nested too deep are a RecursionError.
json_loads(line) ==
    IF Strip(line) = <<"A">> THEN [raised |-> None, value |-> RecordA]
    ELSE IF Strip(line) = <<"M">> THEN [raised |-> None, value |-> RecordM]
    ELSE IF \E i \in DOMAIN line : line[i] = "D"
         THEN [raised |-> "RecursionError", value |-> RecordM]
    ELSE [raised |-> "JSONDecodeError", value |-> RecordM]

\* The loop of lines 55-61 over the lines of one blob: the records appended
\* to all_records, the warnings logged, and whether an exception other than
\* JSONDecodeError left the loop (the lines after it are not reached).
RECURSIVE parse_lines(_)
parse_lines(lines) ==
    IF lines = <<>> THEN [records |-> <<>>, warnings |-> 0, raised |-> FALSE]
    ELSE IF Strip(Head(lines)) = <<>> THEN parse_lines(Tail(lines))
    ELSE LET r == json_loads(Head(lines))
         IN IF r.raised = "RecursionError"
            THEN [records |-> <<>>, warnings |-> 0, raised |-> TRUE]
            ELSE LET rest == parse_lines(Tail(lines))
                 IN IF r.raised = "JSONDecodeError"
                    THEN [rest EXCEPT !.warnings = @ + 1]
                    ELSE [rest EXCEPT !.records = <<r.value>> \o @]

\* Lines 49-63 for a blob whose download gives the bytes c: decode('utf-8')
\* raises on a byte that is not UTF-8, before any line is looked at; any
\* exception but JSONDecodeError ends the blob at line 62 with one error logged.
read_blob(c) ==
    IF \E i \in DOMAIN c : c[i] = "U"
    THEN [records |-> <<>>, warnings |-> 0, errors |-> 1]
    ELSE LET p == parse_lines(Split(c))
         IN [records |-> p.records, warnings |-> p.warnings,
             errors |-> IF p.raised THEN 1 ELSE 0]

\* A line of bytes is the text of one JSON value.
IsJson(line) == Strip(line) \in {<<"A">>, <<"M">>}

\* What reading a blob with bytes c does, with the number of its non-blank
\* lines and of its non-blank lines that are not JSON.
BlobFact(c) ==
    LET lines == Split(c)
        nonblank == {i \in DOMAIN lines : Strip(lines[i]) # <<>>}
    IN [records |-> read_blob(c).records,
        warnings |-> read_blob(c).warnings,
        errors |-> read_blob(c).errors,
        nonblank |-> Cardinality(nonblank),
        bad |-> Cardinality({i \in nonblank : ~IsJson(lines[i])})]

BlobFacts == {BlobFact(c) : c \in Contents}

\* An optional argument: None, or a value.
NoneArg == <<>>
Some(k) == <<k>>

\* The listings get_all_json_files may return: blobs 1..n in container order.
Listings == {[i \in 1..n |-> i] : n \in 0..MaxBlobs}

ReaderInit ==
    /\ rd_pc = "idle"
    /\ listed \in Listings
    /\ max_files \in {NoneArg} \cup {Some(k) : k \in 0..MaxBlobs}
    /\ json_files = <<>>
    /\ idx = 0
    /\ all_records = <<>>
    /\ warnings = 0
    /\ errors = 0
    /\ downloads = <<>>
    /\ seen_lines = 0
    /\ seen_bad = 0
    /\ df = NoneArg

\* Lines 41-42: `if max_files: json_files = json_files[:max_files]`. None and 0
\* are both false.
truncate(files, cap) ==
    IF cap # NoneArg /\ cap[1] # 0
    THEN SubSeq(files, 1, IF cap[1] < Len(files) THEN cap[1] ELSE Len(files))
    ELSE files

\* Lines 41-45.
rd_begin ==
    /\ rd_pc = "idle"
    /\ json_files' = truncate(listed, max_files)
    /\ rd_pc' = "loop"
    /\ UNCHANGED <<listed, max_files, idx, all_records, warnings, errors,
                   downloads, seen_lines, seen_bad, df>>
    /\ UNCHANGED <<simVars, agVars>>

\* One iteration of the for loop of line 47 whose blob downloads.
rd_blob ==
    /\ rd_pc = "loop"
    /\ idx < Len(json_files)
    /\ idx' = idx + 1
    /\ downloads' = Append(downloads, json_files[idx + 1])
    /\ \E f \in BlobFacts :
          /\ all_records' = all_records \o f.records
          /\ warnings' = warnings + f.warnings
          /\ errors' = errors + f.errors
          /\ seen_lines' = seen_lines + f.nonblank
          /\ seen_bad' = seen_bad + f.bad
    /\ UNCHANGED <<rd_pc, listed, max_files, json_files, df>>
    /\ UNCHANGED <<simVars, agVars>>

\* One iteration whose download_blob or readall raises (line 62).
rd_blob_error ==
    /\ rd_pc = "loop"
    /\ idx < Len(json_files)
    /\ idx' = idx + 1
    /\ downloads' = Append(downloads, json_files[idx + 1])
    /\ errors' = errors + 1
    /\ UNCHANGED <<rd_pc, listed, max_files, json_files, all_records, warnings,
                   seen_lines, seen_bad, df>>
    /\ UNCHANGED <<simVars, agVars>>

\* Lines 65-76: None when nothing was read, else the DataFrame of all_records.
rd_return ==
    /\ rd_pc = "loop"
    /\ idx = Len(json_files)
    /\ rd_pc' = "done"
    /\ df' = IF all_records = <<>> THEN NoneArg ELSE Some(all_records)
    /\ UNCHANGED <<listed, max_files, json_files, idx, all_records, warnings,
                   errors, downloads, seen_lines, seen_bad>>
    /\ UNCHANGED <<simVars, agVars>>

process_json_files ==
    \/ rd_begin
    \/ rd_blob
    \/ rd_blob_error
    \/ rd_return

ReaderNext == process_json_files

ReaderIdle ==
    /\ rd_pc = "idle"
    /\ listed = <<>>
    /\ max_files = NoneArg
    /\ json_files = <<>>
    /\ idx = 0
    /\ all_records = <<>>
    /\ warnings = 0
    /\ errors = 0
    /\ downloads = <<>>
    /\ seen_lines = 0
    /\ seen_bad = 0
    /\ df = NoneArg

AggIdle ==
    /\ ag_pc = "idle"
    /\ rows1 = <<>>
    /\ rows2 = <<>>
    /\ summary1 = <<>>
    /\ summary2 = <<>>

\* The simulator alone: the visualizer is not running.
InitSim == SimInit /\ ReaderIdle /\ AggIdle
SpecSim == InitSim /\ [][SimNext]_vars

\* process_json_files alone: the simulator's tasks are not started.
InitReader == ReaderInit /\ SimInit /\ AggIdle
SpecReader == InitReader /\ [][ReaderNext]_vars

(***************************************************************************)
(* simple-visualizer.py: create_visualizations, the summary statistics     *)
(*                                                                         *)
(* pandas and numpy compute in IEEE-754 binary floating point, rounding    *)
(* every operation to the nearest representable value, ties to even. TLC's *)
(* integers cannot hold a binary64 significand, so the same arithmetic is  *)
(* modelled with a significand of Prec bits: a float is an integer number  *)
(* of units of 1/One, and every value that arises here and is not below    *)
(* One has exactly Prec significant bits.                                  *)
(***************************************************************************)

\* Significand width of the modelled floats, rows of a DataFrame (model bounds).
\* With 17 bits a decimal tenth rounds to its float the way it does with the
\* 53 bits of binary64 (the binary expansion of 1/10 has period 4).
Prec == 17
MaxRows == 4

RECURSIVE Pow2(_)
Pow2(n) == IF n = 0 THEN 1 ELSE 2 * Pow2(n - 1)

\* The float 1.0, in units.
One == Pow2(Prec - 1)

\* n / d (n >= 0, d > 0) rounded to an integer, ties to even.
RoundHalfEven(n, d) ==
    LET q == n \div d
        r == n % d
    IN IF 2 * r > d \/ (2 * r = d /\ q % 2 = 1) THEN q + 1 ELSE q

\* Least e >= from such that n is below bound * 2^(e - from).
RECURSIVE Exponent(_, _, _)
Exponent(n, bound, from) ==
    IF n < bound THEN from ELSE Exponent(n, 2 * bound, from + 1)

\* The float nearest to the real number n / d units: the quotient is rounded
\* to a multiple of 2^e units, e the least with n / d below 2^(Prec + e).
RoundRat(n, d) ==
    IF n < 0
    THEN LET e == Exponent(-n, d * 2 * One, 0)
         IN -(RoundHalfEven(-n, d * Pow2(e)) * Pow2(e))
    ELSE LET e == Exponent(n, d * 2 * One, 0)
         IN RoundHalfEven(n, d * Pow2(e)) * Pow2(e)

\* Float addition and subtraction.
FAdd(a, b) == RoundRat(a + b, 1)
FSub(a, b) == RoundRat(a - b, 1)

\* The float a JSON number with one decimal, tenths / 10, parses to.
Decimal(tenths) == RoundRat(tenths * One, 10)

\* The mean of a groupby: Kahan summation over the group's rows in DataFrame
\* order, then the sum divided by the number of rows.
RECURSIVE KahanSum(_, _, _)
KahanSum(vals, sumx, compensation) ==
    IF vals = <<>> THEN sumx
    ELSE LET y == FSub(Head(vals), compensation)
             s == FAdd(sumx, y)
         IN KahanSum(Tail(vals), s, FSub(FSub(s, sumx), y))

group_mean(vals) == RoundRat(KahanSum(vals, 0, 0), Len(vals))

group_min(vals) ==
    CHOOSE v \in {vals[i] : i \in DOMAIN vals} : \A i \in DOMAIN vals : v <= vals[i]

group_max(vals) ==
    CHOOSE v \in {vals[i] : i \in DOMAIN vals} : \A i \in DOMAIN vals : v >= vals[i]

\* .round(2) of a float x >= 0: rint(x * 100.0) / 100.0, each step a float
\* operation.
round2(x) ==
    LET scaled == RoundRat(100 * x, 1)
        rint == One * RoundHalfEven(scaled, One)
    IN RoundRat(rint, 100)

\* The rows of one location, in DataFrame order.
GroupValues(rows, loc) ==
    LET sel == SelectSeq(rows, LAMBDA r : r.location = loc)
    IN [i \in DOMAIN sel |-> sel[i].avgIceThickness]

\* Lines 146-151: df.groupby('location').agg(['mean', 'min', 'max']).round(2)
\* for the column avgIceThickness.
Summary(rows) ==
    [loc \in {rows[i].location : i \in DOMAIN rows} |->
        LET vals == GroupValues(rows, loc)
        IN [mean |-> round2(group_mean(vals)),
            min |-> round2(group_min(vals)),
            max |-> round2(group_max(vals))]]

\* The values avgIceThickness takes in the model, in tenths.
Tenths == {162, 190, 322, 399}

Rows == [location : {"NAC", "Fifth Avenue"}, avgIceThickness : {Decimal(k) : k \in Tenths}]

AggInit ==
    /\ ag_pc = "ready"
    /\ rows1 \in UNION {[1..n -> Rows] : n \in 1..MaxRows}
    /\ rows2 = rows1
    /\ summary1 = <<>>
    /\ summary2 = <<>>

\* The same records reach the DataFrame in another order (all_records is
\* appended to in blob and line order): two neighbouring rows change places.
reorder(i) ==
    /\ ag_pc = "ready"
    /\ i < Len(rows2)
    /\ rows2' = [rows2 EXCEPT ![i] = rows2[i + 1], ![i + 1] = rows2[i]]
    /\ UNCHANGED <<ag_pc, rows1, summary1, summary2>>
    /\ UNCHANGED <<simVars, rdVars>>

\* create_visualizations on the DataFrame in each of the two orders.
create_visualizations ==
    /\ ag_pc = "ready"
    /\ summary1' = Summary(rows1)
    /\ summary2' = Summary(rows2)
    /\ ag_pc' = "done"
    /\ UNCHANGED <<rows1, rows2>>
    /\ UNCHANGED <<simVars, rdVars>>

AggNext ==
    \/ \E i \in 1..(MaxRows - 1) : reorder(i)
    \/ create_visualizations

\* create_visualizations alone.
InitAgg == AggInit /\ SimInit /\ ReaderIdle
SpecAgg == InitAgg /\ [][AggNext]_vars

(***************************************************************************)
(* Claims about sensor-simulator.py, checked under SpecSim                 *)
(***************************************************************************)

Disconnects(s) == Count(calls[s], "disconnect")
ConnectSucceeded(s) == Count(calls[s], "connected") = 1

\* C1 as stated: whichever way simulate_sensor ends once it has run (connect
\* failure, publish failure, any other exception, cancellation), disconnect
\* has been invoked exactly once.
C1_DisconnectOnceOnEveryExit ==
    \A s \in Stations :
        (pc[s] = "done" /\ Count(calls[s], "connect") = 1) => Disconnects(s) = 1

\* C1 as amended: disconnect is never invoked twice; a task that ended has
\* invoked it exactly once if its connect succeeded, and not at all if its
\* connect raised or was cancelled.
C1_DisconnectOncePerOpenedSession ==
    \A s \in Stations :
        /\ Disconnects(s) <= 1
        /\ pc[s] = "done" =>
              Disconnects(s) = (IF ConnectSucceeded(s) THEN 1 ELSE 0)

\* A station was cancelled after connecting and ended with one disconnect,
\* another ended on a publish failure with one disconnect, a third ended on a
\* connect failure.
C1_Witness ==
    \E s, t, u \in Stations :
        /\ pc[s] = "done" /\ result[s] = "cancelled" /\ ConnectSucceeded(s)
        /\ Disconnects(s) = 1
        /\ pc[t] = "done" /\ publish_failed[t] /\ Disconnects(t) = 1
        /\ pc[u] = "done" /\ result[u] = "raised" /\ ~ConnectSucceeded(u)

\* C2: when one station's connect raises and nothing else went wrong (no
\* interrupt, no failure of another station's own), every other station that
\* connected keeps emitting: it is neither cancelled nor disconnected.
C2_ConnectFailureLeavesSiblingsRunning ==
    \A b \in Stations :
        ( /\ result[b] = "raised"
          /\ ~ConnectSucceeded(b)
          /\ ~interrupted
          /\ \A c \in Stations \ {b} : ~publish_failed[c] /\ result[c] # "raised" )
        => \A s \in Stations \ {b} :
              ConnectSucceeded(s) =>
                  /\ ~must_cancel[s]
                  /\ Emitting(s)
                  /\ Disconnects(s) = 0

\* C3: a station whose publish was rejected, and which was not cancelled,
\* stays connected and in its emit loop; the failure alone does not move it
\* towards Disconnected.
C3_PublishFailureKeepsStationConnected ==
    \A s \in Stations :
        (publish_failed[s] /\ cancelled_at[s] = None /\ ~must_cancel[s])
        => (Emitting(s) /\ session[s] = "open" /\ Disconnects(s) = 0)

\* C4: no cancellation interrupts a station while send_message is in progress.
C4_NeverCancelledDuringPublish ==
    \A s \in Stations : cancelled_at[s] # "send_message"

\* C5: main has returned normally only if every station is Disconnected.
C5_MainReturnsOnlyWhenAllDisconnected ==
    main_state = "returned" => \A s \in Stations : Disconnected(s)

\* main returned normally (every station ended on a publish failure).
C5_Witness ==
    /\ main_state = "returned"
    /\ \E s \in Stations : acks[s] > 0

\* C10: each station's transport calls are connect, then publishes only once
\* connect has succeeded, then disconnect; nothing follows the disconnect.
C10_ConnectPublishDisconnectOrder ==
    \A s \in Stations :
        \A i \in DOMAIN calls[s] :
            /\ calls[s][i] = "connect" => i = 1
            /\ calls[s][i] = "connected" => i = 2
            /\ calls[s][i] = "send_message" =>
                  /\ i > 2
                  /\ calls[s][2] = "connected"
                  /\ \A j \in 1..i : calls[s][j] # "disconnect"
            /\ calls[s][i] = "disconnect" => i = Len(calls[s]) /\ i > 2

\* A station went through connect, two publishes and its disconnect.
C10_Witness ==
    \E s \in Stations :
        /\ Disconnected(s)
        /\ calls[s] = <<"connect", "connected", "send_message", "send_message",
                        "disconnect">>

(***************************************************************************)
(* Claims about process_json_files, checked under SpecReader               *)
(***************************************************************************)

\* C6: called without a cap, of the N non-blank lines of the blobs read, k of
\* them not JSON, exactly N - k records are kept: no line that is not JSON
\* costs a line that is.
C6_KeepsEveryValidLine ==
    max_files = NoneArg => Len(all_records) = seen_lines - seen_bad

\* C7: every record kept carries the station id, the timestamp and the metrics.
C7_RecordsCarryRequiredFields ==
    \A i \in DOMAIN all_records : RequiredFields \subseteq DOMAIN all_records[i]

\* C9: with a cap max_files = k, at most k blobs are downloaded, and at the
\* end those are the first k of the listing.
C9_DownloadsAtMostCap ==
    max_files # NoneArg =>
        /\ Len(downloads) <= max_files[1]
        /\ rd_pc = "done" =>
              downloads = SubSeq(listed, 1, IF max_files[1] < Len(listed)
                                            THEN max_files[1] ELSE Len(listed))

(***************************************************************************)
(* Claim about create_visualizations, checked under SpecAgg                *)
(***************************************************************************)

\* C8: the summary (mean, min and max per location) of the same records is
\* the same whatever the order the records are presented in.
C8_SummaryIndependentOfOrder ==
    ag_pc = "done" => summary1 = summary2

====
